---- MODULE Spec2Model ----
(***************************************************************************)
(* A model of the three tools of the document toolkit:                     *)
(*   - ImageToPdf    (src/unnamed/part_000): the image list, its preview   *)
(*     object URLs, drag reordering and the image-to-PDF conversion run;   *)
(*   - TextAnalyzer  (src/src/components/TextAnalyzer.tsx): the statistics *)
(*     computed from the text;                                             *)
(*   - MarkdownToPdf (src/src/components/MarkdownToPdf.tsx): the line      *)
(*     classification and the paginating layout loop.                      *)
(* Strings are sequences of one-character strings. Lengths on the page are *)
(* exact rationals <<numerator, denominator>> in the image tool and whole  *)
(* tenths of a unit in the Markdown tool.                                   *)
(***************************************************************************)
EXTENDS Integers, Sequences, FiniteSets, TLC

VARIABLES
    \* ---- TextAnalyzer: the page holding the three tabs
    tab,           \* the tab whose content is mounted
    \* ---- ImageToPdf
    images,        \* useState<ImageItem[]>: the ordered list
    draggedId,     \* useState<string | null>: 0 stands for null
    isGenerating,  \* useState(false)
    nextId,        \* the next fresh identity token / File / object URL
    revoked,       \* preview object URL -> number of URL.revokeObjectURL calls
    toast,         \* the last notification of the image tool
    run,           \* the conversion run: position, closure, document, counters
    \* ---- TextAnalyzer
    text,          \* useState(""): the analysed text
    \* ---- MarkdownToPdf
    markdown,      \* useState(""): the Markdown source
    mdToast,       \* the last notification of the Markdown tool
    mdRun,         \* the Markdown conversion run: cursor, document, counters
    \* ---- the page-fit computation on its own
    bitmap,        \* natural size <<width, height>> of a decoded bitmap
    slot           \* the placement computed for it, or NoSlot

imgVars  == <<images, draggedId, isGenerating, nextId, revoked, toast, run>>
statVars == <<text>>
mdVars   == <<markdown, mdToast, mdRun>>
fitVars  == <<bitmap, slot>>
vars     == <<tab, images, draggedId, isGenerating, nextId, revoked, toast, run,
              text, markdown, mdToast, mdRun, bitmap, slot>>

(***************************************************************************)
(* Bounds of the model.                                                    *)
(***************************************************************************)
\* identity tokens (files, preview URLs) issued over a behaviour
MaxIds == 3
\* files in one upload event
MaxBatch == 2

(***************************************************************************)
(* Generic sequence helpers.                                               *)
(***************************************************************************)
RECURSIVE SumSeq(_)
SumSeq(s) == IF s = <<>> THEN 0 ELSE Head(s) + SumSeq(Tail(s))

Range(s) == {s[i] : i \in 1..Len(s)}

Max(a, b) == IF a >= b THEN a ELSE b
Min(a, b) == IF a <= b THEN a ELSE b

(***************************************************************************)
(* Exact rational arithmetic: <<n, d>> with d > 0, in lowest terms.        *)
(***************************************************************************)
RECURSIVE GCD(_, _)
GCD(a, b) == IF b = 0 THEN a ELSE GCD(b, a % b)

Abs(n) == IF n < 0 THEN -n ELSE n

RNorm(n, d) ==
    LET g == GCD(Abs(n), Abs(d))
        s == IF d < 0 THEN -1 ELSE 1
    IN  <<(s * n) \div g, (s * d) \div g>>

R(n) == <<n, 1>>
RMul(a, b) == RNorm(a[1] * b[1], a[2] * b[2])
RDiv(a, b) == RNorm(a[1] * b[2], a[2] * b[1])
RSub(a, b) == RNorm(a[1] * b[2] - b[1] * a[2], a[2] * b[2])
RGt(a, b)  == a[1] * b[2] > b[1] * a[2]
RLe(a, b)  == ~RGt(a, b)

(***************************************************************************)
(* ImageToPdf: the page and the fit computation of handleConvertToPdf.     *)
(***************************************************************************)
\* doc.internal.pageSize of a default jsPDF document (A4, millimetres)
pageWidth == 210
pageHeight == 297
margin == 10

maxWidth == pageWidth - margin * 2
maxHeight == pageHeight - margin * 2

\* a width pass that scales to the content width whatever the natural width
WidthPassAlways(imgWidth, imgHeight) ==
    LET ratio == RDiv(R(maxWidth), R(imgWidth))
    IN  <<R(maxWidth), RMul(R(imgHeight), ratio)>>

\* "if (finalWidth > maxWidth)": <<finalWidth, finalHeight>> after the pass
WidthPass(imgWidth, imgHeight) ==
    IF RGt(R(imgWidth), R(maxWidth))
    THEN LET ratio == RDiv(R(maxWidth), R(imgWidth))
         IN  <<R(maxWidth), RMul(R(imgHeight), ratio)>>
    ELSE <<R(imgWidth), R(imgHeight)>>

\* a height pass that leaves the width as it was
HeightPassKeepsWidth(finalWidth, finalHeight) ==
    IF RGt(finalHeight, R(maxHeight))
    THEN <<finalWidth, R(maxHeight)>>
    ELSE <<finalWidth, finalHeight>>

\* "if (finalHeight > maxHeight)": <<finalWidth, finalHeight>> after the pass
HeightPass(finalWidth, finalHeight) ==
    IF RGt(finalHeight, R(maxHeight))
    THEN LET ratio == RDiv(R(maxHeight), finalHeight)
         IN  <<RMul(finalWidth, ratio), R(maxHeight)>>
    ELSE <<finalWidth, finalHeight>>

\* the placement handed to doc.addImage for a bitmap of the given size
FitImage(imgWidth, imgHeight) ==
    LET p1 == WidthPass(imgWidth, imgHeight)
        p2 == HeightPass(p1[1], p1[2])
    IN  [finalWidth  |-> p2[1],
         finalHeight |-> p2[2],
         x |-> RDiv(RSub(R(pageWidth), p2[1]), R(2)),
         y |-> RDiv(RSub(R(pageHeight), p2[2]), R(2))]

NoSlot == [finalWidth |-> R(0), finalHeight |-> R(0), x |-> R(0), y |-> R(0)]

(***************************************************************************)
(* ImageToPdf: the image list.                                             *)
(***************************************************************************)
\* an ImageItem; token n names the n-th accepted file, its id and its
\* preview object URL (URL.createObjectURL returns a fresh URL each call)
Item(n) == [id |-> n, file |-> n, preview |-> n]

\* what destructuring an empty splice result yields
Undefined == [id |-> 0, file |-> 0, preview |-> 0]

Ids(list) == {list[i].id : i \in 1..Len(list)}

\* Array.prototype.findIndex on the id, 0-based, -1 when absent
FindIndex(list, id) ==
    IF \E i \in 1..Len(list) : list[i].id = id
    THEN (CHOOSE i \in 1..Len(list) :
              /\ list[i].id = id
              /\ \A j \in 1..(i - 1) : list[j].id # id) - 1
    ELSE -1

\* the start index Array.prototype.splice works from
SpliceStart(len, start) ==
    IF start < 0 THEN Max(len + start, 0) ELSE Min(start, len)

\* list.splice(start, 1): the removed items and what is left
SpliceOut(list, start) ==
    LET s == SpliceStart(Len(list), start)
    IN  IF s >= Len(list)
        THEN [removed |-> <<>>, rest |-> list]
        ELSE [removed |-> <<list[s + 1]>>,
              rest |-> SubSeq(list, 1, s) \o SubSeq(list, s + 2, Len(list))]

\* list.splice(start, 0, item)
SpliceIn(list, start, item) ==
    LET s == SpliceStart(Len(list), start)
    IN  SubSeq(list, 1, s) \o <<item>> \o SubSeq(list, s + 1, Len(list))

\* the updater of handleDrop
MoveItem(prev, dragged, target) ==
    LET draggedIndex == FindIndex(prev, dragged)
        targetIndex  == FindIndex(prev, target)
        out          == SpliceOut(prev, draggedIndex)
        draggedItem  == IF out.removed = <<>> THEN Undefined ELSE out.removed[1]
    IN  SpliceIn(out.rest, targetIndex, draggedItem)

\* a filter with the test inverted
FilterIn(prev, id) == SelectSeq(prev, LAMBDA it : it.id = id)

RECURSIVE FilterOut(_, _)
\* prev.filter((i) => i.id !== id)
FilterOut(prev, id) ==
    IF prev = <<>> THEN <<>>
    ELSE IF Head(prev).id # id
         THEN <<Head(prev)>> \o FilterOut(Tail(prev), id)
         ELSE FilterOut(Tail(prev), id)

\* a removal that forgets to revoke
RemoveRevokesNothing(prev, id) == <<>>

\* the previews removeImage's updater revokes: that of prev.find(...), if any
RemoveRevokes(prev, id) ==
    LET k == FindIndex(prev, id)
    IN  IF k >= 0 THEN <<prev[k + 1].preview>> ELSE <<>>

\* the previews handleClear revokes: one call per item of the list
ClearRevokes(list) == [i \in 1..Len(list) |-> list[i].preview]

\* URL.revokeObjectURL called on each url of calls, in order
Revoke(rev, calls) ==
    [u \in DOMAIN rev |->
        rev[u] + Cardinality({i \in 1..Len(calls) : calls[i] = u})]

Added        == "Added image(s)"
NotAnImage   == "is not an image file"
Removed      == "Image removed"
Cleared      == "All images cleared"
NoImages     == "Please add at least one image"
Downloaded   == "PDF downloaded successfully!"
Failed       == "Failed to generate PDF"
NoToast      == "none"

\* the accepted files of an upload, as new items
NewImages(batch, first) ==
    LET accepted == {i \in 1..Len(batch) : batch[i]}
        count    == Cardinality(accepted)
    IN  [k \in 1..count |-> Item(first + k - 1)]

Batches == UNION {[1..n -> BOOLEAN] : n \in 0..MaxBatch}

(***************************************************************************)
(* ImageToPdf: the conversion run. A run is the closure of one call of     *)
(* handleConvertToPdf: snap is the images array the callback closed over,  *)
(* doc the jsPDF document as a sequence of pages, each the sequence of     *)
(* files drawn on it (<<>> while no document exists), tmp the object URLs  *)
(* loadImage created, in order.                                            *)
(***************************************************************************)
IdleRun ==
    [pc |-> "idle", snap |-> <<>>, i |-> 0, doc |-> <<>>, placed |-> NoSlot,
     addPages |-> 0, saves |-> 0, errors |-> 0, tmp |-> <<>>,
     failedAt |-> "none"]

\* img.width and img.height of a decoded file: a file's natural size is fixed,
\* and the files cycle through the four cases of the fit: within the content
\* area, too wide and then still too tall, too tall, too wide
DecodedSize(file) ==
    LET sizes == <<(<<50, 50>>), (<<1000, 2000>>), (<<100, 600>>), (<<2000, 1000>>)>>
    IN  sizes[(file % 4) + 1]

\* new jsPDF(): one empty page, which is the current page
NewDoc == <<<<>>>>
\* doc.addPage(): a new last page becomes the current page
AddPage(doc) == Append(doc, <<>>)
\* doc.addImage(...): draws on the current page
AddImage(doc, file) == [doc EXCEPT ![Len(doc)] = Append(@, file)]

\* a handler that saves what it has when a step fails
CatchAndSave(r, at) ==
    [r EXCEPT !.pc = "failed", !.errors = @ + 1, !.failedAt = at,
              !.saves = @ + 1]

\* the catch block: one toast.error, nothing rethrown
Catch(r, at) == [r EXCEPT !.pc = "failed", !.errors = @ + 1, !.failedAt = at]

\* a loop head that requests a page before every image, the first included
LoopTopAlwaysAddsPage(r, fail) ==
    IF fail = "addPage"
    THEN Catch(r, "addPage")
    ELSE [r EXCEPT !.doc = AddPage(@), !.addPages = @ + 1,
                   !.tmp = Append(@, "live"), !.pc = "await"]

\* the head of loop iteration r.i, up to the await of loadImage
LoopTop(r, fail) ==
    IF r.i > 0 /\ fail = "addPage"
    THEN Catch(r, "addPage")
    ELSE LET r1 == IF r.i > 0
                   THEN [r EXCEPT !.doc = AddPage(@), !.addPages = @ + 1]
                   ELSE r
         IN  [r1 EXCEPT !.tmp = Append(@, "live"), !.pc = "await"]

\* doc.save("images.pdf") and the success toast
Finish(r, fail) ==
    IF fail = "save"
    THEN Catch([r EXCEPT !.saves = @ + 1], "save")
    ELSE [r EXCEPT !.saves = @ + 1, !.pc = "done"]

\* the rest of iteration r.i once the decode has resolved, then the loop
\* test, and either the head of the next iteration or the save
AfterDecode(r, fail) ==
    LET size == DecodedSize(r.snap[r.i + 1].file)
        fit  == FitImage(size[1], size[2])
    IN  IF fail = "addImage"
        THEN Catch([r EXCEPT !.placed = fit], "addImage")
        ELSE LET r1 == [r EXCEPT !.placed = fit,
                                 !.doc = AddImage(@, r.snap[r.i + 1].file),
                                 !.tmp[Len(r.tmp)] = "revoked",
                                 !.i = @ + 1]
             IN  IF r1.i < Len(r1.snap) THEN LoopTop(r1, fail)
                                        ELSE Finish(r1, fail)

\* the run from setIsGenerating(true) to the first await
StartRun(list, fail) ==
    LET r0 == [IdleRun EXCEPT !.snap = list]
    IN  IF fail = "jsPDF" THEN Catch(r0, "jsPDF")
        ELSE LoopTop([r0 EXCEPT !.doc = NewDoc], fail)

\* the locals of a call that has returned are kept until the next event, so
\* that its outcome can be read, and are gone after it
Retire(r) == IF r.pc \in {"done", "failed"} THEN IdleRun ELSE r

\* the toast a step of the run ends with
RunToast(r, old) ==
    IF r.pc = "done" THEN Downloaded
    ELSE IF r.pc = "failed" THEN Failed ELSE old

notImg == <<tab, text, markdown, mdToast, mdRun, bitmap, slot>>

(***************************************************************************)
(* ImageToPdf: the handlers.                                               *)
(***************************************************************************)
handleFileUpload ==
    \E batch \in Batches :
        LET newImages == NewImages(batch, nextId)
        IN  /\ tab = "images"
            /\ nextId + Len(newImages) - 1 <= MaxIds
            /\ images' = IF Len(newImages) > 0 THEN images \o newImages
                                               ELSE images
            /\ nextId' = nextId + Len(newImages)
            /\ toast' = IF Len(newImages) > 0 THEN Added
                        ELSE IF \E i \in 1..Len(batch) : ~batch[i]
                             THEN NotAnImage ELSE toast
            /\ run' = Retire(run)
            /\ UNCHANGED <<draggedId, isGenerating, revoked>>
            /\ UNCHANGED notImg

handleDragStart ==
    \E id \in Ids(images) :
        /\ tab = "images"
        /\ draggedId' = id
        /\ run' = Retire(run)
        /\ UNCHANGED <<images, isGenerating, nextId, revoked, toast>>
        /\ UNCHANGED notImg

\* onDrop of the item rendered for targetId
handleDrop(targetId) ==
    /\ tab = "images"
    /\ targetId \in Ids(images)
    /\ IF draggedId = 0 \/ draggedId = targetId
       THEN UNCHANGED <<images, draggedId>>
       ELSE /\ images' = MoveItem(images, draggedId, targetId)
            /\ draggedId' = 0
    /\ run' = Retire(run)
    /\ UNCHANGED <<isGenerating, nextId, revoked, toast>>
    /\ UNCHANGED notImg

handleDragEnd ==
    /\ tab = "images"
    /\ draggedId' = 0
    /\ run' = Retire(run)
    /\ UNCHANGED <<images, isGenerating, nextId, revoked, toast>>
    /\ UNCHANGED notImg

removeImage(id) ==
    /\ tab = "images"
    /\ revoked' = Revoke(revoked, RemoveRevokes(images, id))
    /\ images' = FilterOut(images, id)
    /\ toast' = Removed
    /\ run' = Retire(run)
    /\ UNCHANGED <<draggedId, isGenerating, nextId>>
    /\ UNCHANGED notImg

handleClear ==
    /\ tab = "images"
    /\ images # <<>>
    /\ revoked' = Revoke(revoked, ClearRevokes(images))
    /\ images' = <<>>
    /\ toast' = Cleared
    /\ run' = Retire(run)
    /\ UNCHANGED <<draggedId, isGenerating, nextId>>
    /\ UNCHANGED notImg

\* a Download button that stays enabled during a run
ConvertEnabledAlways == TRUE

\* the Download PDF button accepts a click: "disabled={images.length === 0 ||
\* isGenerating}"; the empty list is left to the handler's own test
ConvertEnabled == ~isGenerating

handleConvertToPdf ==
    /\ tab = "images"
    /\ ConvertEnabled
    /\ IF Len(images) = 0
       THEN /\ toast' = NoImages
            /\ run' = Retire(run)
            /\ UNCHANGED isGenerating
       ELSE \E fail \in {"none", "jsPDF"} :
                /\ run' = StartRun(images, fail)
                /\ isGenerating' = (run'.pc = "await")
                /\ toast' = RunToast(run', toast)
    /\ UNCHANGED <<images, draggedId, nextId, revoked>>
    /\ UNCHANGED notImg

\* img.onload: the awaited decode resolves and the run goes on
ImageLoaded ==
    /\ tab = "images"
    /\ run.pc = "await"
    /\ \E fail \in {"none", "addImage", "addPage", "save"} :
           /\ run' = AfterDecode(run, fail)
           /\ isGenerating' = (run'.pc = "await")
           /\ toast' = RunToast(run', toast)
    /\ UNCHANGED <<images, draggedId, nextId, revoked>>
    /\ UNCHANGED notImg

\* img.onerror: the awaited decode rejects
ImageFailed ==
    /\ tab = "images"
    /\ run.pc = "await"
    /\ run' = Catch(run, "decode")
    /\ isGenerating' = FALSE
    /\ toast' = Failed
    /\ UNCHANGED <<images, draggedId, nextId, revoked>>
    /\ UNCHANGED notImg

\* <Tabs defaultValue="analyzer">: a tab's content is mounted while the tab is
\* selected; a session is followed on the tool it opens
SelectTab ==
    /\ tab = "analyzer"
    /\ tab' \in {"markdown", "images"}
    /\ UNCHANGED <<imgVars, statVars, mdVars, fitVars>>

ImgInit ==
    /\ images = <<>>
    /\ draggedId = 0
    /\ isGenerating = FALSE
    /\ nextId = 1
    /\ revoked = [u \in 1..MaxIds |-> 0]
    /\ toast = NoToast
    /\ run = IdleRun


(***************************************************************************)
(* TextAnalyzer: the statistics of the text (the stats memo).              *)
(***************************************************************************)
\* longest text typed
MaxTextLen == 4

TextChars == {"a", ".", "!", "?", " ", "\n"}

\* what \s matches and trim() strips
IsSpace(c) == c \in {" ", "\n", "\t", "\r"}

IsBlank(s) == \A i \in 1..Len(s) : IsSpace(s[i])

RECURSIVE TrimStart(_)
TrimStart(s) ==
    IF s # <<>> /\ IsSpace(Head(s)) THEN TrimStart(Tail(s)) ELSE s

RECURSIVE TrimEnd(_)
TrimEnd(s) ==
    IF s # <<>> /\ IsSpace(s[Len(s)])
    THEN TrimEnd(SubSeq(s, 1, Len(s) - 1)) ELSE s

\* String.prototype.trim
Trim(s) == TrimEnd(TrimStart(s))

\* k >= i: the end of the run of whitespace that starts at i (i - 1 if none)
RECURSIVE SpaceRunEnd(_, _)
SpaceRunEnd(s, i) ==
    IF i <= Len(s) /\ IsSpace(s[i]) THEN SpaceRunEnd(s, i + 1) ELSE i - 1

\* s.split(/\s+/): the pieces between the maximal runs of whitespace; cur is
\* the piece being read, i the next position
RECURSIVE SplitSpaces(_, _, _)
SplitSpaces(s, i, cur) ==
    IF i > Len(s) THEN <<cur>>
    ELSE IF IsSpace(s[i])
         THEN <<cur>> \o SplitSpaces(s, SpaceRunEnd(s, i) + 1, <<>>)
         ELSE SplitSpaces(s, i + 1, Append(cur, s[i]))

\* s.split('\n')
RECURSIVE SplitLines(_, _, _)
SplitLines(s, i, cur) ==
    IF i > Len(s) THEN <<cur>>
    ELSE IF s[i] = "\n"
         THEN <<cur>> \o SplitLines(s, i + 1, <<>>)
         ELSE SplitLines(s, i + 1, Append(cur, s[i]))

\* where a match of /\n\s*\n/ that starts at i ends, or 0 when there is none:
\* \s* is greedy, so the match ends at the last "\n" of the whitespace that
\* follows position i
BlankSepEnd(s, i) ==
    IF s[i] # "\n" THEN 0
    ELSE LET e    == SpaceRunEnd(s, i + 1)
             ends == {k \in (i + 1)..e : s[k] = "\n"}
         IN  IF ends = {} THEN 0
             ELSE CHOOSE k \in ends : \A j \in ends : j <= k

\* s.split(/\n\s*\n/)
RECURSIVE SplitParagraphs(_, _, _)
SplitParagraphs(s, i, cur) ==
    IF i > Len(s) THEN <<cur>>
    ELSE LET e == BlankSepEnd(s, i)
         IN  IF e > 0
             THEN <<cur>> \o SplitParagraphs(s, e + 1, <<>>)
             ELSE SplitParagraphs(s, i + 1, Append(cur, s[i]))

IsTerminator(c) == c \in {".", "!", "?"}

RECURSIVE TerminatorRunEnd(_, _)
TerminatorRunEnd(s, i) ==
    IF i <= Len(s) /\ IsTerminator(s[i]) THEN TerminatorRunEnd(s, i + 1)
                                         ELSE i - 1

\* line.match(/[.!?]+/g): the successive leftmost greedy matches, as
\* <<first, last>> positions; <<>> stands for null
RECURSIVE MatchTerminators(_, _)
MatchTerminators(s, i) ==
    IF i > Len(s) THEN <<>>
    ELSE IF IsTerminator(s[i])
         THEN LET e == TerminatorRunEnd(s, i)
              IN  <<(<<i, e>>)>> \o MatchTerminators(s, e + 1)
         ELSE MatchTerminators(s, i + 1)

\* a reducer that counts the matches only
LineMatchesOnly(line) == Len(MatchTerminators(line, 1))

\* the reducer of sentenceCount, for one line
LineSentences(line) ==
    LET punctuationEndings == MatchTerminators(line, 1)
    IN  IF punctuationEndings # <<>> THEN Len(punctuationEndings) ELSE 1

NonBlank(pieces) == SelectSeq(pieces, LAMBDA p : Len(Trim(p)) > 0)

NonEmpty(pieces) == SelectSeq(pieces, LAMBDA p : Len(p) > 0)

WordsPerMinute == 200

\* Math.ceil(a / b) for a >= 0, b > 0
CeilDiv(a, b) == (a + b - 1) \div b

\* a word count that splits the raw text and keeps every piece
WordCountUntrimmed(t) == Len(SplitSpaces(t, 1, <<>>))

WordCount(t) ==
    LET words == NonEmpty(SplitSpaces(Trim(t), 1, <<>>))
    IN  IF Trim(t) = <<>> THEN 0 ELSE Len(words)

ParagraphCount(t) ==
    LET paragraphs == NonBlank(SplitParagraphs(t, 1, <<>>))
    IN  IF Trim(t) = <<>> THEN 0 ELSE Len(paragraphs)

SentenceCount(t) ==
    LET lines == NonBlank(SplitLines(t, 1, <<>>))
    IN  SumSeq([k \in 1..Len(lines) |-> LineSentences(lines[k])])

\* the stats memo
Stats(t) ==
    [characterCount     |-> Len(t),
     wordCount          |-> WordCount(t),
     paragraphCount     |-> ParagraphCount(t),
     sentenceCount      |-> SentenceCount(t),
     readingTimeMinutes |-> CeilDiv(WordCount(t), WordsPerMinute)]

stats == Stats(text)

notStat == <<tab, images, draggedId, isGenerating, nextId, revoked, toast, run,
             markdown, mdToast, mdRun, bitmap, slot>>

\* the textarea's onChange: a character typed at the end, or the last deleted
TextChange ==
    /\ tab = "analyzer"
    /\ \/ \E c \in TextChars :
              /\ Len(text) < MaxTextLen
              /\ text' = Append(text, c)
       \/ /\ text # <<>>
          /\ text' = SubSeq(text, 1, Len(text) - 1)
    /\ UNCHANGED notStat

\* TextAnalyzer's handleClear (the button is disabled while the text is empty)
ClearText ==
    /\ tab = "analyzer"
    /\ text # <<>>
    /\ text' = <<>>
    /\ UNCHANGED notStat


(***************************************************************************)
(* MarkdownToPdf: line classification and inline stripping.                *)
(***************************************************************************)
Str1(a) == <<a>>

\* line.startsWith(p)
StartsWith(line, p) == Len(line) >= Len(p) /\ SubSeq(line, 1, Len(p)) = p

\* line.slice(n)
Slice(line, n) == SubSeq(line, n + 1, Len(line))

IsDigit(c) == c \in {"0", "1", "2", "3", "4", "5", "6", "7", "8", "9"}

\* /^\d+\.\s/.test(line)
IsNumbered(line) ==
    \E k \in 1..Len(line) :
        /\ \A j \in 1..k : IsDigit(line[j])
        /\ Len(line) >= k + 2
        /\ line[k + 1] = "."
        /\ IsSpace(line[k + 2])

\* the three characters the source prepends to a bullet item, and the space
BulletPrefix == <<"U+00E2", "U+20AC", "U+00A2", " ">>

\* the if / else-if chain: class, text, fontSize and fontStyle of a line
Classify(line) ==
    IF StartsWith(line, <<"#", " ">>)
    THEN [class |-> "h1", text |-> Slice(line, 2), fontSize |-> 24,
          fontStyle |-> "bold"]
    ELSE IF StartsWith(line, <<"#", "#", " ">>)
    THEN [class |-> "h2", text |-> Slice(line, 3), fontSize |-> 20,
          fontStyle |-> "bold"]
    ELSE IF StartsWith(line, <<"#", "#", "#", " ">>)
    THEN [class |-> "h3", text |-> Slice(line, 4), fontSize |-> 16,
          fontStyle |-> "bold"]
    ELSE IF StartsWith(line, <<"-", " ">>) \/ StartsWith(line, <<"*", " ">>)
    THEN [class |-> "bullet", text |-> BulletPrefix \o Slice(line, 2),
          fontSize |-> 12, fontStyle |-> "normal"]
    ELSE IF IsNumbered(line)
    THEN [class |-> "numbered", text |-> line, fontSize |-> 12,
          fontStyle |-> "normal"]
    ELSE IF StartsWith(line, <<">", " ">>)
    THEN [class |-> "quote", text |-> <<" ", " ">> \o Slice(line, 2),
          fontSize |-> 12, fontStyle |-> "italic"]
    ELSE [class |-> "plain", text |-> line, fontSize |-> 12,
          fontStyle |-> "normal"]

MatchAt(s, pat, i) ==
    /\ i >= 1
    /\ i + Len(pat) - 1 <= Len(s)
    /\ SubSeq(s, i, i + Len(pat) - 1) = pat

\* the first position from i on at which pat occurs in s, or 0
FindFrom(s, pat, i) ==
    LET at == {j \in i..Len(s) : MatchAt(s, pat, j)}
    IN  IF at = {} THEN 0 ELSE CHOOSE j \in at : \A k \in at : j <= k

\* s.replace(/open(.*?)close/g, "$1") from position i on: leftmost matches,
\* the group as short as possible
RECURSIVE StripPair(_, _, _, _)
StripPair(s, i, open, close) ==
    IF i > Len(s) THEN <<>>
    ELSE LET j == IF MatchAt(s, open, i)
                  THEN FindFrom(s, close, i + Len(open)) ELSE 0
         IN  IF j > 0
             THEN SubSeq(s, i + Len(open), j - 1)
                      \o StripPair(s, j + Len(close), open, close)
             ELSE <<s[i]>> \o StripPair(s, i + 1, open, close)

\* s.replace(/\[(.*?)\]\(.*?\)/g, "$1") from position i on
RECURSIVE StripLinks(_, _)
StripLinks(s, i) ==
    IF i > Len(s) THEN <<>>
    ELSE LET j == IF s[i] = "[" THEN FindFrom(s, <<"]", "(">>, i + 1) ELSE 0
             k == IF j > 0 THEN FindFrom(s, <<")">>, j + 2) ELSE 0
         IN  IF k > 0
             THEN SubSeq(s, i + 1, j - 1) \o StripLinks(s, k + 1)
             ELSE <<s[i]>> \o StripLinks(s, i + 1)

\* "Remove markdown formatting characters": the four replaces, in order
\* (U+0060 is the backquote)
StripInline(t) ==
    LET bold   == StripPair(t, 1, <<"*", "*">>, <<"*", "*">>)
        italic == StripPair(bold, 1, <<"*">>, <<"*">>)
        code   == StripPair(italic, 1, <<"U+0060">>, <<"U+0060">>)
    IN  StripLinks(code, 1)

(***************************************************************************)
(* MarkdownToPdf: the layout loop. Vertical lengths are whole tenths of a  *)
(* page unit, so that fontSize * 0.4 is exact.                             *)
(***************************************************************************)
\* lines of Markdown entered
MaxMdLines == 2
\* the most lines doc.splitTextToSize wraps one text into
MaxWrap == 30

mdMargin == 20
\* "yPosition += textHeight + 4" and "yPosition += 6"
BlockGap == 4
EmptyLineGap == 6

Tenths(n) == n * 10

\* fontSize * 0.4, in tenths
LineHeight(fontSize) == fontSize * 4

\* the lines a user enters: one of each class with the text "a", a "#" with no
\* space after it, an emphasised word, and lines whose text is blank
LineInputs ==
    {<<"#", " ", "a">>, <<"#", "#", " ", "a">>, <<"#", "#", "#", " ", "a">>,
     <<"-", " ", "a">>, <<"*", " ", "a">>, <<"1", ".", " ", "a">>,
     <<">", " ", "a">>, <<"a">>, <<"#", "a">>, <<"*", "a", "*">>,
     <<>>, <<" ">>, <<"#", " ">>}

EnterMarkdown  == "Please enter some markdown first"
ContentCleared == "Content cleared!"

NoStep ==
    [class |-> "none", text |-> <<>>, fontSize |-> 0, fontStyle |-> "normal",
     wrapped |-> 0, textHeight |-> 0, newPage |-> FALSE, y |-> 0,
     emitted |-> FALSE]

\* a run of the Markdown handleConvertToPdf: created says whether new jsPDF()
\* returned, i counts the lines laid out, pages the doc.addPage() calls, blocks
\* the doc.text() calls, step describes the line laid out last
IdleMd ==
    [pc |-> "idle", created |-> FALSE, lines |-> <<>>, i |-> 0,
     yPosition |-> 0, pages |-> 0, blocks |-> 0, step |-> NoStep,
     saves |-> 0, errors |-> 0, failedAt |-> "none"]

\* the lengths doc.splitTextToSize(text, maxWidth) can have: the renderer
\* decides it from the text's width; an empty text is one (empty) line
WrapChoices(t) == IF t = <<>> THEN {1} ELSE {1, MaxWrap}

\* a page test that looks at the cursor only
NeedsNewPageCursorOnly(yPosition, textHeight) ==
    yPosition > Tenths(pageHeight) - Tenths(mdMargin)

\* "if (yPosition + textHeight > pageHeight - margin)"
NeedsNewPage(yPosition, textHeight) ==
    yPosition + textHeight > Tenths(pageHeight) - Tenths(mdMargin)

\* the cursor after a line placed at y
Advance(y, textHeight, emitted) ==
    IF emitted THEN y + textHeight + Tenths(BlockGap)
               ELSE y + Tenths(EmptyLineGap)

\* one iteration of "for (const line of lines)", the text wrapped in n lines
LayoutLine(r, n) ==
    LET line       == r.lines[r.i + 1]
        c          == Classify(line)
        t          == StripInline(c.text)
        textHeight == n * LineHeight(c.fontSize)
        newPage    == NeedsNewPage(r.yPosition, textHeight)
        y          == IF newPage THEN Tenths(mdMargin) ELSE r.yPosition
        emitted    == ~IsBlank(t)
    IN  [r EXCEPT !.i = @ + 1,
                  !.yPosition = Advance(y, textHeight, emitted),
                  !.pages = IF newPage THEN @ + 1 ELSE @,
                  !.blocks = IF emitted THEN @ + 1 ELSE @,
                  !.step = [class |-> c.class, text |-> t,
                            fontSize |-> c.fontSize, fontStyle |-> c.fontStyle,
                            wrapped |-> n, textHeight |-> textHeight,
                            newPage |-> newPage, y |-> y, emitted |-> emitted]]

\* the catch block of the Markdown handler
MdCatch(r, at) ==
    [r EXCEPT !.pc = "failed", !.errors = @ + 1, !.failedAt = at]

\* from "try {" to the loop
MdStart(md, fail) ==
    IF fail THEN MdCatch(IdleMd, "jsPDF")
    ELSE [IdleMd EXCEPT !.pc = "loop", !.created = TRUE,
                        !.lines = SplitLines(md, 1, <<>>),
                        !.yPosition = Tenths(mdMargin)]

\* doc.save("document.pdf") and the success toast
MdFinish(r, fail) ==
    IF fail THEN MdCatch([r EXCEPT !.saves = @ + 1], "save")
    ELSE [r EXCEPT !.saves = @ + 1, !.pc = "done"]

\* the locals of a call that has returned, gone after the next event
MdRetire(r) == IF r.pc \in {"done", "failed"} THEN IdleMd ELSE r

MdToast(r, old) ==
    IF r.pc = "done" THEN Downloaded
    ELSE IF r.pc = "failed" THEN Failed ELSE old

notMd == <<tab, images, draggedId, isGenerating, nextId, revoked, toast, run,
           text, bitmap, slot>>

\* the textarea's onChange: one more line entered
MarkdownChange ==
    /\ tab = "markdown"
    /\ mdRun.pc # "loop"
    /\ markdown = <<>> \/ Len(SplitLines(markdown, 1, <<>>)) < MaxMdLines
    /\ \E l \in LineInputs :
           markdown' = IF markdown = <<>> THEN l
                       ELSE markdown \o <<"\n">> \o l
    /\ mdRun' = MdRetire(mdRun)
    /\ UNCHANGED mdToast
    /\ UNCHANGED notMd

\* MarkdownToPdf's handleClear (the button is disabled while markdown is "")
mdHandleClear ==
    /\ tab = "markdown"
    /\ mdRun.pc # "loop"
    /\ markdown # <<>>
    /\ markdown' = <<>>
    /\ mdToast' = ContentCleared
    /\ mdRun' = MdRetire(mdRun)
    /\ UNCHANGED notMd

\* an emptiness test that forgets to trim
MdIsEmptyRaw(md) == md = <<>>

\* "if (!markdown.trim())"
MdIsEmpty(md) == Trim(md) = <<>>

\* MarkdownToPdf's handleConvertToPdf, to the head of the loop
mdHandleConvertToPdf ==
    /\ tab = "markdown"
    /\ mdRun.pc # "loop"
    /\ IF MdIsEmpty(markdown)
       THEN /\ mdToast' = EnterMarkdown
            /\ mdRun' = MdRetire(mdRun)
       ELSE \E fail \in BOOLEAN :
                /\ mdRun' = MdStart(markdown, fail)
                /\ mdToast' = MdToast(mdRun', mdToast)
    /\ UNCHANGED markdown
    /\ UNCHANGED notMd

\* the next line is laid out
MdLine ==
    /\ mdRun.pc = "loop"
    /\ mdRun.i < Len(mdRun.lines)
    /\ \E n \in WrapChoices(StripInline(Classify(mdRun.lines[mdRun.i + 1]).text)) :
           mdRun' = LayoutLine(mdRun, n)
    /\ UNCHANGED <<markdown, mdToast>>
    /\ UNCHANGED notMd

\* a renderer call of the iteration throws
MdLineThrows ==
    /\ mdRun.pc = "loop"
    /\ mdRun.i < Len(mdRun.lines)
    /\ mdRun' = MdCatch(mdRun, "line")
    /\ mdToast' = Failed
    /\ UNCHANGED markdown
    /\ UNCHANGED notMd

\* the loop is over: save
MdSave ==
    /\ mdRun.pc = "loop"
    /\ mdRun.i = Len(mdRun.lines)
    /\ \E fail \in BOOLEAN :
           /\ mdRun' = MdFinish(mdRun, fail)
           /\ mdToast' = MdToast(mdRun', mdToast)
    /\ UNCHANGED markdown
    /\ UNCHANGED notMd

StatInit == text = <<>>
MdInit == markdown = <<>> /\ mdToast = NoToast /\ mdRun = IdleMd
FitInit == bitmap = <<1, 1>> /\ slot = NoSlot

Init == tab = "analyzer" /\ ImgInit /\ StatInit /\ MdInit /\ FitInit

Next ==
    \/ SelectTab
    \/ handleFileUpload
    \/ handleDragStart
    \/ \E targetId \in Ids(images) : handleDrop(targetId)
    \/ handleDragEnd
    \/ \E id \in 1..(nextId - 1) : removeImage(id)
    \/ handleClear
    \/ handleConvertToPdf
    \/ ImageLoaded
    \/ ImageFailed
    \/ MarkdownChange
    \/ mdHandleClear
    \/ mdHandleConvertToPdf
    \/ MdLine
    \/ MdLineThrows
    \/ MdSave

Spec == Init /\ [][Next]_vars

\* the browser ends every image load it started: once img.src is set, onload
\* or onerror is eventually called
Decoded == ImageFailed \/ ImageLoaded

LiveSpec == Init /\ [][Next]_vars /\ WF_vars(Decoded)

StatNext == TextChange \/ ClearText

StatSpec == Init /\ [][StatNext]_vars

(***************************************************************************)
(* The fit computation on its own, for every natural size up to MaxDim.    *)
(***************************************************************************)
\* largest natural width and height of a bitmap
MaxDim == 300

notFit == <<tab, images, draggedId, isGenerating, nextId, revoked, toast, run,
            text, markdown, mdToast, mdRun>>

FitSpecInit ==
    /\ tab = "images"
    /\ ImgInit /\ StatInit /\ MdInit
    /\ bitmap \in (1..MaxDim) \X (1..MaxDim)
    /\ slot = NoSlot

\* lines 125-150 of the loop body, for the decoded bitmap
FitBitmap ==
    /\ slot = NoSlot
    /\ slot' = FitImage(bitmap[1], bitmap[2])
    /\ UNCHANGED bitmap
    /\ UNCHANGED notFit

FitSpec == FitSpecInit /\ [][FitBitmap]_vars

(***************************************************************************)
(* Claims about the image list and the image-to-PDF run.                   *)
(***************************************************************************)
Created == 1..(nextId - 1)

Occurrences(list, u) == Cardinality({i \in 1..Len(list) : list[i].preview = u})

Pos(list, id) == FindIndex(list, id)

DistinctIds(list) ==
    \A i, j \in 1..Len(list) : list[i].id = list[j].id => i = j

\* C1: every preview object URL created at upload is either still the preview
\* of exactly one item of the list and was never revoked, or belongs to no item
\* of the list and was revoked exactly once; a URL not yet created is in no
\* item and was never revoked. So removal and clear revoke what they drop,
\* nothing that stays, and nothing twice.
C1_PreviewHandles ==
    /\ \A i \in 1..Len(images) : images[i].preview \in Created
    /\ \A u \in DOMAIN revoked :
           IF u \in Created
           THEN \/ Occurrences(images, u) = 1 /\ revoked[u] = 0
                \/ Occurrences(images, u) = 0 /\ revoked[u] = 1
           ELSE Occurrences(images, u) = 0 /\ revoked[u] = 0

\* a removal has just left one item in the list and two URLs revoked once
C1_Witness ==
    /\ toast = Removed
    /\ Len(images) = 1
    /\ Cardinality({u \in Created : revoked[u] = 1}) = 2

PlacedPages(r) ==
    \A k \in 1..Len(r.doc) :
        r.doc[k] = IF k <= r.i THEN <<r.snap[k].file>> ELSE <<>>

\* C3: while a run is under way and when it has ended, page k of the document
\* holds exactly the k-th image of the list the run was triggered with, for
\* every image placed so far, and nothing else is on any page; addPage was
\* requested once before each image but the first (as many requests as images
\* begun, less one); at most one decode is outstanding, that of image i; a
\* finished run has placed all n images with n-1 addPage requests. The list
\* itself may have been edited in any way meanwhile.
C3_PagesInListOrder ==
    /\ run.pc = "await" =>
           /\ run.i < Len(run.snap)
           /\ Len(run.doc) = run.i + 1
           /\ run.addPages = run.i
           /\ PlacedPages(run)
           /\ Len(run.tmp) = run.i + 1
           /\ \A k \in 1..Len(run.tmp) :
                  run.tmp[k] = IF k = run.i + 1 THEN "live" ELSE "revoked"
    /\ run.pc = "done" =>
           /\ run.i = Len(run.snap)
           /\ Len(run.doc) = Len(run.snap)
           /\ run.addPages = Len(run.snap) - 1
           /\ PlacedPages(run)
    /\ run.pc = "failed" /\ run.doc # <<>> =>
           /\ Len(run.doc) = run.addPages + 1
           /\ run.addPages <= run.i
           /\ PlacedPages(run)

\* two images are placed, the third is being decoded, and none of the three
\* is in the list any more
C3_Witness ==
    /\ run.pc = "await"
    /\ run.i = 2
    /\ Len(run.snap) = 3
    /\ Ids(images) \cap Ids(run.snap) = {}

C9_Removed(id) ==
    IF id \in Ids(images)
    THEN /\ Len(images') = Len(images) - 1
         /\ id \notin Ids(images')
         /\ Ids(images') = Ids(images) \ {id}
         /\ Range(images') \subseteq Range(images)
         /\ \A a, b \in Ids(images') :
                (Pos(images', a) < Pos(images', b))
                    <=> (Pos(images, a) < Pos(images, b))
         /\ \A u \in DOMAIN revoked :
                revoked'[u] = revoked[u]
                    + (IF u = images[Pos(images, id) + 1].preview THEN 1 ELSE 0)
    ELSE /\ images' = images
         /\ revoked' = revoked

\* C9: on a list of pairwise-distinct ids, removeImage(id) with id in the list
\* yields a list one shorter, without id, holding every other item in the same
\* relative order, and revokes the removed item's preview once and nothing
\* else; with id not in the list it changes neither the list nor any URL.
C9_RemoveImage ==
    [][\A id \in 1..MaxIds :
           removeImage(id) /\ DistinctIds(images) => C9_Removed(id)]_vars

\* one of three uploaded images has just been removed
C9_Witness ==
    /\ toast = Removed
    /\ nextId = 4
    /\ Len(images) = 2
    /\ Cardinality({u \in Created : revoked[u] = 1}) = 1

(***************************************************************************)
(* Claims about the statistics.                                            *)
(***************************************************************************)
AllZero(st) ==
    /\ st.characterCount = 0
    /\ st.wordCount = 0
    /\ st.sentenceCount = 0
    /\ st.paragraphCount = 0
    /\ st.readingTimeMinutes = 0

\* C2 as stated: for a text that is empty or only whitespace, all five
\* statistics are 0, characterCount included.
C2_BlankAllZero == IsBlank(text) => AllZero(stats)

\* C2 amended: for a text that is empty or only whitespace, wordCount,
\* sentenceCount, paragraphCount and readingTimeMinutes are 0, and
\* characterCount is the length of the text, which is 0 only for the empty
\* text.
C2_BlankCountsZero ==
    IsBlank(text) =>
        /\ stats.wordCount = 0
        /\ stats.sentenceCount = 0
        /\ stats.paragraphCount = 0
        /\ stats.readingTimeMinutes = 0
        /\ stats.characterCount = Len(text)
        /\ (stats.characterCount = 0 <=> text = <<>>)

\* a text of blanks and line breaks only
C2_Witness ==
    /\ Len(text) >= 2
    /\ IsBlank(text)
    /\ \E i, j \in 1..Len(text) : text[i] = " " /\ text[j] = "\n"

\* the positions at which a line of t starts
LineStarts(t) == {1} \cup {i + 1 : i \in {j \in 1..Len(t) : t[j] = "\n"}}

\* the line of t that starts at position st
LineFrom(t, st) ==
    LET stops == {j \in st..(Len(t) + 1) : j = Len(t) + 1 \/ t[j] = "\n"}
        stop  == CHOOSE j \in stops : \A k \in stops : j <= k
    IN  SubSeq(t, st, stop - 1)

\* the maximal runs of '.', '!', '?' in a line, by where they start
RunStarts(line) ==
    {i \in 1..Len(line) :
        /\ line[i] \in {".", "!", "?"}
        /\ i = 1 \/ line[i - 1] \notin {".", "!", "?"}}

\* what variant (b) counts for one line
VariantB(line) ==
    IF \A i \in 1..Len(line) : line[i] \in {" ", "\n", "\t", "\r"} THEN 0
    ELSE IF RunStarts(line) = {} THEN 1 ELSE Cardinality(RunStarts(line))

RECURSIVE SumOver(_, _)
SumOver(t, starts) ==
    IF starts = {} THEN 0
    ELSE LET st == CHOOSE x \in starts : TRUE
         IN  VariantB(LineFrom(t, st)) + SumOver(t, starts \ {st})

NonBlankLines(t) ==
    Cardinality({st \in LineStarts(t) : VariantB(LineFrom(t, st)) > 0})

\* C8: sentenceCount is the sum over the lines with non-blank content of the
\* number of maximal runs of '.', '!', '?' in the line, or 1 for such a line
\* with no run; so it is at least the number of non-blank lines; and
\* "a.\nb!\nc" counts 3, "a b c" counts 1.
C8_SentenceCountVariantB ==
    /\ stats.sentenceCount = SumOver(text, LineStarts(text))
    /\ stats.sentenceCount >= NonBlankLines(text)
    /\ Stats(<<"a", ".", "\n", "b", "!", "\n", "c">>).sentenceCount = 3
    /\ Stats(<<"a", " ", "b", " ", "c">>).sentenceCount = 1

\* a line with no terminator, then a line that is one run of two terminators
C8_Witness ==
    /\ text = <<"a", "\n", ".", "!">>
    /\ stats.sentenceCount = 2

(***************************************************************************)
(* Claims about the conversion routines and the fit.                       *)
(***************************************************************************)
\* C4: in both conversion routines, a run in which a decode was rejected or a
\* renderer call threw before the save has called save zero times, has shown
\* exactly one failure notification ("Failed to generate PDF", the last toast),
\* has ended inside the handler (the image tool's generating flag is cleared
\* again) and has repeated no step (no image was loaded twice, no line laid out
\* twice); a run that called save called it once, after all its images or
\* lines; a run that has not failed has shown no failure notification.
C4_NoSaveAfterFailure ==
    /\ run.pc = "failed" =>
           /\ run.errors = 1
           /\ toast = Failed
           /\ ~isGenerating
           /\ run.failedAt # "save" => run.saves = 0
           /\ Len(run.tmp) \in {run.i, run.i + 1}
           /\ run.i <= Len(run.snap)
    /\ run.saves >= 1 =>
           /\ run.saves = 1
           /\ run.i = Len(run.snap)
           /\ Len(run.doc) = Len(run.snap)
           /\ \A k \in 1..Len(run.doc) : Len(run.doc[k]) = 1
    /\ run.pc \in {"idle", "await", "done"} => run.errors = 0
    /\ mdRun.pc = "failed" =>
           /\ mdRun.errors = 1
           /\ mdToast = Failed
           /\ mdRun.failedAt # "save" => mdRun.saves = 0
           /\ mdRun.i <= Len(mdRun.lines)
    /\ mdRun.saves >= 1 =>
           /\ mdRun.saves = 1
           /\ mdRun.i = Len(mdRun.lines)
    /\ mdRun.pc \in {"idle", "loop", "done"} => mdRun.errors = 0

\* an image run failed on a rejected decode after one image had been placed
C4_Witness ==
    /\ run.pc = "failed"
    /\ run.failedAt = "decode"
    /\ run.i = 1
    /\ run.saves = 0

\* C5: for every positive natural size (w, h), the placement is no wider than
\* pageWidth - 2*margin, no taller than pageHeight - 2*margin, and has the
\* bitmap's aspect ratio exactly: finalWidth * h = finalHeight * w.
C5_FitWithinPage ==
    slot # NoSlot =>
        /\ slot.finalWidth[1] <= (pageWidth - 2 * margin) * slot.finalWidth[2]
        /\ slot.finalHeight[1] <= (pageHeight - 2 * margin) * slot.finalHeight[2]
        /\ slot.finalWidth[1] * bitmap[2] * slot.finalHeight[2]
               = slot.finalHeight[1] * bitmap[1] * slot.finalWidth[2]
        /\ slot.finalWidth[2] > 0 /\ slot.finalHeight[2] > 0

\* a bitmap scaled by both passes: too wide, and after that still too tall
C5_Witness ==
    /\ bitmap = <<200, 300>>
    /\ slot.finalHeight = <<pageHeight - 2 * margin, 1>>
    /\ slot.finalWidth = <<(pageHeight - 2 * margin) * 2, 3>>

\* the bottom of the content area, in tenths
C6_Bottom == 10 * pageHeight - 10 * mdMargin

C6_Step(before, after) ==
    LET st       == after.step
        th       == st.wrapped * st.fontSize * 4
        overflow == before.yPosition + th > C6_Bottom
    IN  /\ st.textHeight = th
        /\ st.wrapped >= 1
        /\ after.pages = before.pages + (IF overflow THEN 1 ELSE 0)
        /\ st.newPage <=> overflow
        /\ st.y = IF overflow THEN 10 * mdMargin ELSE before.yPosition
        /\ st.emitted <=> ~IsBlank(st.text)
        /\ after.blocks = before.blocks + (IF st.emitted THEN 1 ELSE 0)
        /\ st.emitted =>
               /\ st.y >= 10 * mdMargin
               /\ st.y + th <= C6_Bottom \/ st.y = 10 * mdMargin
        /\ after.yPosition = st.y + (IF st.emitted THEN th + 40 ELSE 60)

\* C6: every step of the layout loop requests a new page exactly when
\* yPosition + textHeight > pageHeight - margin, with textHeight = wrapped
\* lines * fontSize * 0.4, and then places the line at the top margin; an
\* emitted block is at y >= margin with y + textHeight <= pageHeight - margin
\* or y = margin; the cursor then is y + textHeight + 4 after a block and y + 6
\* after a line that emitted none.
C6_PageBreaks ==
    [][(mdRun.pc = "loop" /\ mdRun'.pc = "loop" /\ mdRun'.i = mdRun.i + 1)
           => C6_Step(mdRun, mdRun')]_vars

\* the second line did not fit under the first: page requested, block at the top
C6_Witness ==
    /\ mdRun.pc = "loop"
    /\ mdRun.i = 2
    /\ mdRun.pages = 1
    /\ mdRun.step.newPage
    /\ mdRun.step.emitted
    /\ mdRun.step.y = 10 * mdMargin

BulletGlyph == "U+2022"

\* the classification the claim states: text, size and style by first prefix
C7_Expected(line) ==
    IF StartsWith(line, <<"#", " ">>)
    THEN [text |-> Slice(line, 2), fontSize |-> 24, fontStyle |-> "bold"]
    ELSE IF StartsWith(line, <<"#", "#", " ">>)
    THEN [text |-> Slice(line, 3), fontSize |-> 20, fontStyle |-> "bold"]
    ELSE IF StartsWith(line, <<"#", "#", "#", " ">>)
    THEN [text |-> Slice(line, 4), fontSize |-> 16, fontStyle |-> "bold"]
    ELSE IF StartsWith(line, <<"-", " ">>) \/ StartsWith(line, <<"*", " ">>)
    THEN [text |-> <<BulletGlyph, " ">> \o Slice(line, 2), fontSize |-> 12,
          fontStyle |-> "normal"]
    ELSE IF IsNumbered(line)
    THEN [text |-> line, fontSize |-> 12, fontStyle |-> "normal"]
    ELSE IF StartsWith(line, <<">", " ">>)
    THEN [text |-> <<" ", " ">> \o Slice(line, 2), fontSize |-> 12,
          fontStyle |-> "italic"]
    ELSE [text |-> line, fontSize |-> 12, fontStyle |-> "normal"]

C7_Title == <<"#", " ", "T", "i", "t", "l", "e">>

\* C7: the line laid out last has the text, size and style the claim's
\* priority list gives it (a bullet item starting with the bullet glyph and a
\* space), and yields one block of that size and style when its text is not
\* blank; "# Title" yields one block, size 24, bold, text "Title".
C7_Classification ==
    /\ mdRun.pc = "loop" /\ mdRun.i >= 1 =>
           LET line == mdRun.lines[mdRun.i]
               want == C7_Expected(line)
           IN  /\ Classify(line).text = want.text
               /\ mdRun.step.fontSize = want.fontSize
               /\ mdRun.step.fontStyle = want.fontStyle
               /\ mdRun.step.emitted <=> ~IsBlank(mdRun.step.text)
    /\ LET r == LayoutLine([IdleMd EXCEPT !.pc = "loop", !.lines = <<C7_Title>>,
                                          !.yPosition = 10 * mdMargin], 1)
       IN  /\ r.blocks = 1
           /\ r.step.text = <<"T", "i", "t", "l", "e">>
           /\ r.step.fontSize = 24
           /\ r.step.fontStyle = "bold"

\* C10: a conversion requested with no input reports the error and attempts
\* nothing: the Markdown handler, on a text that is empty or only whitespace,
\* shows its error toast, creates no document, lays out no line and saves
\* nothing; the image handler, on an empty list, shows its error toast, leaves
\* the generating flag clear, creates no document and saves nothing.
C10_EmptyInputNotAttempted ==
    [][/\ (mdHandleConvertToPdf /\ IsBlank(markdown)) =>
              /\ mdToast' = EnterMarkdown
              /\ mdRun'.pc = "idle"
              /\ ~mdRun'.created
              /\ mdRun'.i = 0 /\ mdRun'.blocks = 0 /\ mdRun'.pages = 0
              /\ mdRun'.saves = 0
              /\ mdRun'.errors = 0
       /\ (handleConvertToPdf /\ Len(images) = 0) =>
              /\ toast' = NoImages
              /\ ~isGenerating /\ ~isGenerating'
              /\ run'.pc = "idle"
              /\ run'.doc = <<>>
              /\ run'.saves = 0
              /\ run'.errors = 0]_vars

\* the Markdown tool has refused a text of whitespace only
C10_Witness ==
    /\ tab = "markdown"
    /\ markdown # <<>>
    /\ IsBlank(markdown)
    /\ mdToast = EnterMarkdown
    /\ mdRun = IdleMd

\* C11: a bitmap no wider than pageWidth - 2*margin and no taller than
\* pageHeight - 2*margin is placed at its natural size; for every bitmap the
\* placement is no wider and no taller than the bitmap; and the placement is
\* centred: the space left of it equals the space right of it, the space
\* above it the space below it (2x + finalWidth = pageWidth, 2y + finalHeight
\* = pageHeight). A 50 x 50 bitmap on the 210 x 297 page with margin 10 is
\* placed 50 x 50 at x = 80, y = 123.5.
C11_NoUpscalingCentered ==
    /\ slot # NoSlot =>
           /\ (bitmap[1] <= pageWidth - 2 * margin
                   /\ bitmap[2] <= pageHeight - 2 * margin)
                  => /\ slot.finalWidth = <<bitmap[1], 1>>
                     /\ slot.finalHeight = <<bitmap[2], 1>>
           /\ slot.finalWidth[1] <= bitmap[1] * slot.finalWidth[2]
           /\ slot.finalHeight[1] <= bitmap[2] * slot.finalHeight[2]
           /\ 2 * slot.x[1] * slot.finalWidth[2] + slot.finalWidth[1] * slot.x[2]
                  = pageWidth * slot.x[2] * slot.finalWidth[2]
           /\ 2 * slot.y[1] * slot.finalHeight[2] + slot.finalHeight[1] * slot.y[2]
                  = pageHeight * slot.y[2] * slot.finalHeight[2]
           /\ slot.x[2] > 0 /\ slot.y[2] > 0
    /\ FitImage(50, 50) = [finalWidth |-> <<50, 1>>, finalHeight |-> <<50, 1>>,
                           x |-> <<80, 1>>, y |-> <<247, 2>>]

\* a 50 x 50 bitmap has been placed at its natural size in the middle of the page
C11_Witness ==
    /\ bitmap = <<50, 50>>
    /\ slot.finalWidth = <<50, 1>>
    /\ slot.finalHeight = <<50, 1>>
    /\ slot.x = <<80, 1>>
    /\ slot.y = <<247, 2>>

C12_Dropped(targetId) ==
    IF draggedId = 0 \/ draggedId = targetId
    THEN images' = images
    ELSE /\ Len(images') = Len(images)
         /\ Range(images') = Range(images)
         /\ DistinctIds(images')
         /\ \A a, b \in Ids(images) \ {draggedId} :
                (Pos(images', a) < Pos(images', b))
                    <=> (Pos(images, a) < Pos(images, b))
         /\ draggedId \in Ids(images) =>
                Pos(images', draggedId) = Pos(images, targetId)

\* C12: after any interleaving of uploads, drag starts, drag ends, removals,
\* clears and drops, a drop on the item targetId with a dragged item recorded
\* and different from the target yields a permutation of the list (same
\* items, same length) in which all items other than the one recorded as
\* dragged keep their relative order and the dragged item, when it is in the
\* list, is at the index the target had before the drop; a drop with no
\* dragged item, or onto the dragged item, leaves the list unchanged.
C12_DropMovesOnlyDragged ==
    [][\A targetId \in 1..MaxIds :
           handleDrop(targetId) /\ DistinctIds(images)
               => C12_Dropped(targetId)]_vars

\* C13: isGenerating is true exactly while an image run is between its start
\* and its finish. A run starts only from a state where the flag is false
\* and the list is non-empty, and the flag is true once it has started; a
\* run in progress is never restarted or replaced, only advanced by its own
\* steps (one image further, or to the failure), so at most one run is in
\* progress; every exit of a run (saved, decode rejected, renderer threw)
\* leaves the flag false; and, every awaited decode eventually resolving or
\* rejecting, a run in progress eventually is finished with the flag false.
C13_GeneratingFlag ==
    /\ [](isGenerating <=> run.pc = "await")
    /\ [][(run.pc # "await" /\ run'.pc = "await")
              => (~isGenerating /\ images # <<>> /\ isGenerating'
                     /\ run'.snap = images /\ run'.i = 0)]_vars
    /\ [][(run.pc = "await" /\ run' # run)
              => /\ run'.snap = run.snap
                 /\ run'.i = run.i + 1 \/ run'.pc = "failed"
                 /\ run'.i >= run.i
                 /\ Len(run'.tmp) >= Len(run.tmp)]_vars
    /\ [][(run.pc = "await" /\ run'.pc # "await")
              => (run'.pc \in {"done", "failed"} /\ ~isGenerating')]_vars
    /\ (run.pc = "await") ~> (run.pc \in {"done", "failed"} /\ ~isGenerating)

\* a run of two images ended on a renderer exception at the second image,
\* and the flag is clear
C13_Witness ==
    /\ run.pc = "failed"
    /\ run.failedAt = "addImage"
    /\ run.i = 1
    /\ Len(run.snap) = 2
    /\ ~isGenerating

\* C14: when a run has finished, on any exit path (saved, a decode rejected,
\* a renderer call threw), every temporary object URL that loadImage created
\* during the run has been revoked.
C14_TempUrlsRevoked ==
    run.pc \in {"done", "failed"} =>
        \A k \in 1..Len(run.tmp) : run.tmp[k] = "revoked"

====
